---- MODULE Spec2Model ----
(***************************************************************************)
(* Model of pkg/util/sets/generic.go: the generic map-backed Set[T].       *)
(*                                                                         *)
(* A Set[T] is a Go map[T]struct{}: a reference to storage, or nil.  The   *)
(* model keeps the program's Set variables (a, b, c), the map each one     *)
(* refers to, and the last call with its result.  Keys are small integers  *)
(* standing for the values of T in their natural order; for the            *)
(* floating-point kinds the key NaN, which is not equal to itself, is also *)
(* a value of T.                                                           *)
(*                                                                         *)
(* Spec, TotalSpec and HistSpec run the operations on string keys;         *)
(* ListSpec runs List on every kind of key, the floating-point kind with   *)
(* NaN included.                                                           *)
(***************************************************************************)
EXTENDS Integers, Sequences, FiniteSets

VARIABLES
    kind,      \* reflect.TypeOf(s).Key().Kind(): the kind of the key type T
    ref,       \* each Set variable: the storage it refers to, or nil
    store,     \* the map held at each piece of storage
    ret,       \* the last call and what it returned
    panicked,  \* whether a call has panicked (the program has stopped)
    hist       \* history: what the latest New/Insert/Delete to mention a key did

vars == <<kind, ref, store, ret, panicked, hist>>

\* ---------------------------------------------------------------- bounds
MaxElem == 3
MaxKeys == 2
MaxNaN == 1

\* ------------------------------------------------------- the key type T
Elem == 1..MaxElem
NaN == MaxElem + 1

SignedKinds == {"int"}
UnsignedKinds == {"uint"}
FloatKinds == {"float64"}
StringKinds == {"string"}
OtherKinds == {"struct"}
Kinds == SignedKinds \cup UnsignedKinds \cup FloatKinds \cup StringKinds \cup OtherKinds

\* The values of T a caller can pass.
Keys(kd) == IF kd \in FloatKinds THEN Elem \cup {NaN} ELSE Elem

\* The variadic argument lists (keys ...T) of at most MaxKeys keys.
KeySeqs(kd) == UNION {[1..n -> Keys(kd)] : n \in 0..MaxKeys}

\* ------------------------------------------------ the map behind a Set
\* A map[T]struct{}: its keys that equal themselves, and how many NaN entries
\* it holds (each NaN written is an entry of its own, which no lookup finds).
EmptyMap == [keys |-> {}, nans |-> 0]

Regs == {"a", "b", "c"}
NilRef == "nil"
Addr == Regs

\* Has: the map lookup s[k].
Has(s, k) == k # NaN /\ k \in s.keys

\* len(s)
SetLen(s) == Cardinality(s.keys) + s.nans

\* s[k] = struct{}{}
InsertKey(s, k) ==
    IF k = NaN THEN [s EXCEPT !.nans = @ + 1] ELSE [s EXCEPT !.keys = @ \cup {k}]

\* delete(s, k)
DeleteKeyNoop(s, k) == s

DeleteKey(s, k) ==
    IF k = NaN THEN s ELSE [s EXCEPT !.keys = @ \ {k}]

RECURSIVE Insert(_, _)
Insert(s, keys) ==
    IF keys = <<>> THEN s ELSE Insert(InsertKey(s, Head(keys)), Tail(keys))

RECURSIVE Delete(_, _)
Delete(s, keys) ==
    IF keys = <<>> THEN s ELSE Delete(DeleteKey(s, Head(keys)), Tail(keys))

New(keys) == Insert(EmptyMap, keys)

\* `for k := range s`: the entries of s, each once.  The order Go visits them in
\* is arbitrary; Entries is one order, Orders are all of them.
RECURSIVE Entries(_)
Entries(s) ==
    IF s.keys # {}
    THEN LET k == CHOOSE x \in s.keys : TRUE
         IN <<k>> \o Entries([s EXCEPT !.keys = @ \ {k}])
    ELSE IF s.nans > 0 THEN <<NaN>> \o Entries([s EXCEPT !.nans = @ - 1])
    ELSE <<>>

RECURSIVE Orders(_)
Orders(s) ==
    IF s.keys = {} /\ s.nans = 0 THEN {<<>>}
    ELSE UNION {{<<k>> \o q : q \in Orders([s EXCEPT !.keys = @ \ {k}])} : k \in s.keys}
         \cup (IF s.nans > 0
               THEN {<<NaN>> \o q : q \in Orders([s EXCEPT !.nans = @ - 1])}
               ELSE {})

HasAll(s, keys) == \A i \in 1..Len(keys) : Has(s, keys[i])

HasAny(s, items) == \E i \in 1..Len(items) : Has(s, items[i])

RECURSIVE SupersetLoop(_, _)
SupersetLoop(s, items) ==
    IF items = <<>> THEN TRUE
    ELSE IF ~Has(s, Head(items)) THEN FALSE
    ELSE SupersetLoop(s, Tail(items))

IsSupersetSwapped(s, s2) == SupersetLoop(s2, Entries(s))

IsSuperset(s, s2) == SupersetLoop(s, Entries(s2))

EqualNoLen(s, s2) == IsSuperset(s, s2)

Equal(s, s2) == SetLen(s) = SetLen(s2) /\ IsSuperset(s, s2)

\* ------------------------------------------------------------- algebra
RECURSIVE DifferenceLoop(_, _, _)
DifferenceLoop(result, items, s2) ==
    IF items = <<>> THEN result
    ELSE DifferenceLoop(IF ~Has(s2, Head(items))
                        THEN InsertKey(result, Head(items))
                        ELSE result,
                        Tail(items), s2)

DifferenceKeepsCommon(s, s2) ==
    [keys |-> {k \in s.keys : Has(s2, k)}, nans |-> 0]

Difference(s, s2) == DifferenceLoop(New(<<>>), Entries(s), s2)

UnionFirstOnly(s, s2) == Insert(New(<<>>), Entries(s))

Union(s, s2) == Insert(Insert(New(<<>>), Entries(s)), Entries(s2))

\* walk, other: the operand Intersection iterates and the one it probes.
WalkAlwaysReceiver(s, s2) == s

Walk(s, s2) == IF SetLen(s) < SetLen(s2) THEN s ELSE s2

OtherAlwaysReceiver(s, s2) == s

Other(s, s2) == IF SetLen(s) < SetLen(s2) THEN s2 ELSE s

RECURSIVE IntersectionLoop(_, _, _)
IntersectionLoop(result, items, other) ==
    IF items = <<>> THEN result
    ELSE IntersectionLoop(IF Has(other, Head(items))
                          THEN InsertKey(result, Head(items))
                          ELSE result,
                          Tail(items), other)

Intersection(s, s2) ==
    IntersectionLoop(New(<<>>), Entries(Walk(s, s2)), Other(s, s2))

\* ---------------------------------------------------------------- List
\* less != nil: the kinds the switch on reflect.Kind gives a less function.
HasLess(kd) ==
    kd \in SignedKinds \cup UnsignedKinds \cup FloatKinds \cup StringKinds

LessReversed(kd, x, y) == y < x

\* The less function of the kind: < on the key's Int(), Uint(), Float() or
\* String().  A float comparison with NaN on either side is false.
Less(kd, x, y) ==
    CASE kd \in SignedKinds -> x < y
      [] kd \in UnsignedKinds -> x < y
      [] kd \in FloatKinds -> x # NaN /\ y # NaN /\ x < y
      [] kd \in StringKinds -> x < y
      [] OTHER -> FALSE

Swap(res, i, j) == [res EXCEPT ![i] = res[j], ![j] = res[i]]

\* sort.Slice(res, less): for a slice of at most 12 elements the standard
\* library sorts by insertion, sinking each element while it is less than its
\* left neighbour.
RECURSIVE SinkDown(_, _, _)
SinkDown(kd, res, j) ==
    IF j > 1 /\ Less(kd, res[j], res[j - 1])
    THEN SinkDown(kd, Swap(res, j, j - 1), j - 1)
    ELSE res

RECURSIVE InsertionSort(_, _, _)
InsertionSort(kd, res, i) ==
    IF i > Len(res) THEN res ELSE InsertionSort(kd, SinkDown(kd, res, i), i + 1)

SortSlice(kd, res) == InsertionSort(kd, res, 2)

\* List, given the order res in which the range loop collected the keys.
List(kd, res) == IF HasLess(kd) THEN SortSlice(kd, res) ELSE res

\* ------------------------------------------------------ program state
\* The map a Set variable denotes; a nil Set reads as an empty map.
Val(r) == IF ref[r] = NilRef THEN EmptyMap ELSE store[ref[r]]

\* Where the map made for a value assigned to variable d lives: storage that
\* no other variable refers to.
Fresh(d) ==
    IF \A x \in Regs \ {d} : ref[x] # d THEN d
    ELSE CHOOSE a \in Addr : \A x \in Regs \ {d} : ref[x] # a

\* d = <a new map holding m>; storage no variable refers to any more is gone.
Assign(d, m) ==
    LET a == Fresh(d)
        nref == [ref EXCEPT ![d] = a]
        nstore == [store EXCEPT ![a] = m]
    IN /\ ref' = nref
       /\ store' = [x \in Addr |->
                      IF \E r \in Regs : nref[r] = x THEN nstore[x] ELSE EmptyMap]

\* The last call and what it returned (for a mutator, how many keys it was given).
Result(op, val) == [op |-> op, val |-> val]

\* A write to a nil map panics ("assignment to entry in nil map"); reads,
\* len, range and delete on a nil map do not.
PanicsOnDeleteToo(op, r, keys) ==
    op \in {"Insert", "Delete"} /\ r = NilRef /\ keys # <<>>

Panics(op, r, keys) == op = "Insert" /\ r = NilRef /\ keys # <<>>

Init ==
    /\ kind \in StringKinds
    /\ ref = [r \in Regs |-> NilRef]
    /\ store = [a \in Addr |-> EmptyMap]
    /\ ret = Result("init", 0)
    /\ panicked = FALSE
    /\ hist = [k \in Elem |-> "none"]

\* ------------------------------------------------------------ operations
\* d := New(keys...)
DoNew(d, keys) ==
    /\ ~panicked
    /\ New(keys).nans <= MaxNaN
    /\ Assign(d, New(keys))
    /\ ret' = Result("New", Len(keys))
    /\ UNCHANGED <<kind, panicked>>

\* s.Insert(keys...)
DoInsert(s, keys) ==
    /\ ~panicked
    /\ Insert(Val(s), keys).nans <= MaxNaN
    /\ ret' = Result("Insert", Len(keys))
    /\ IF Panics("Insert", ref[s], keys)
       THEN panicked' = TRUE /\ UNCHANGED <<ref, store>>
       ELSE /\ store' = IF ref[s] = NilRef THEN store
                        ELSE [store EXCEPT ![ref[s]] = Insert(@, keys)]
            /\ UNCHANGED <<ref, panicked>>
    /\ UNCHANGED kind

\* s.Delete(keys...)
DoDelete(s, keys) ==
    /\ ~panicked
    /\ ret' = Result("Delete", Len(keys))
    /\ IF Panics("Delete", ref[s], keys)
       THEN panicked' = TRUE /\ UNCHANGED <<ref, store>>
       ELSE /\ store' = IF ref[s] = NilRef THEN store
                        ELSE [store EXCEPT ![ref[s]] = Delete(@, keys)]
            /\ UNCHANGED <<ref, panicked>>
    /\ UNCHANGED kind

\* s.Has(k)
DoHas(s, k) ==
    /\ ~panicked
    /\ ret' = Result("Has", Has(Val(s), k))
    /\ UNCHANGED <<kind, ref, store, panicked>>

\* s.HasAll(keys...)
DoHasAll(s, keys) ==
    /\ ~panicked
    /\ ret' = Result("HasAll", HasAll(Val(s), keys))
    /\ UNCHANGED <<kind, ref, store, panicked>>

\* s.HasAny(items...)
DoHasAny(s, items) ==
    /\ ~panicked
    /\ ret' = Result("HasAny", HasAny(Val(s), items))
    /\ UNCHANGED <<kind, ref, store, panicked>>

\* s.Len()
DoLen(s) ==
    /\ ~panicked
    /\ ret' = Result("Len", SetLen(Val(s)))
    /\ UNCHANGED <<kind, ref, store, panicked>>

\* s.IsSuperset(s2)
DoIsSuperset(s, s2) ==
    /\ ~panicked
    /\ ret' = Result("IsSuperset", IsSuperset(Val(s), Val(s2)))
    /\ UNCHANGED <<kind, ref, store, panicked>>

\* s.Equal(s2)
DoEqual(s, s2) ==
    /\ ~panicked
    /\ ret' = Result("Equal", Equal(Val(s), Val(s2)))
    /\ UNCHANGED <<kind, ref, store, panicked>>

\* s.List(): the range loop collects the keys in some order, then the sort.
DoList(s) ==
    /\ ~panicked
    /\ \E res \in Orders(Val(s)) : ret' = Result("List", List(kind, res))
    /\ UNCHANGED <<kind, ref, store, panicked>>

\* A plausible slip: Union grows the receiver and returns it.
DoUnionInPlace(d, s, s2) ==
    /\ ~panicked
    /\ ref[s] # NilRef
    /\ ref' = [ref EXCEPT ![d] = ref[s]]
    /\ store' = [store EXCEPT ![ref[s]] = Union(Val(s), Val(s2))]
    /\ ret' = Result("Union", 0)
    /\ UNCHANGED <<kind, panicked>>

\* d := s.Union(s2)
DoUnion(d, s, s2) ==
    /\ ~panicked
    /\ Union(Val(s), Val(s2)).nans <= MaxNaN
    /\ Assign(d, Union(Val(s), Val(s2)))
    /\ ret' = Result("Union", 0)
    /\ UNCHANGED <<kind, panicked>>

\* d := s.Intersection(s2)
DoIntersection(d, s, s2) ==
    /\ ~panicked
    /\ Assign(d, Intersection(Val(s), Val(s2)))
    /\ ret' = Result("Intersection", 0)
    /\ UNCHANGED <<kind, panicked>>

\* d := s.Difference(s2)
DoDifference(d, s, s2) ==
    /\ ~panicked
    /\ Assign(d, Difference(Val(s), Val(s2)))
    /\ ret' = Result("Difference", 0)
    /\ UNCHANGED <<kind, panicked>>

\* --------------------------------------------------------- specifications
\* Spec: three Set variables; a, b and c are built up a key at a time, and c
\* takes the results of the algebra (c := s.Union(s2), ...), whose operands are
\* any of the three.
OneKey(kd) == {<<>>} \cup {<<k>> : k \in Keys(kd)}

Next ==
    \/ \E d \in Regs, keys \in OneKey(kind) : DoNew(d, keys) /\ UNCHANGED hist
    \/ \E s \in Regs, k \in Keys(kind) : DoInsert(s, <<k>>) /\ UNCHANGED hist
    \/ \E s \in Regs, k \in Keys(kind) : DoDelete(s, <<k>>) /\ UNCHANGED hist
    \/ \E s, s2 \in Regs : DoIsSuperset(s, s2) /\ UNCHANGED hist
    \/ \E s, s2 \in Regs : DoEqual(s, s2) /\ UNCHANGED hist
    \/ \E s, s2 \in Regs : DoUnion("c", s, s2) /\ UNCHANGED hist
    \/ \E s, s2 \in Regs : DoIntersection("c", s, s2) /\ UNCHANGED hist
    \/ \E s, s2 \in Regs : DoDifference("c", s, s2) /\ UNCHANGED hist

Spec == Init /\ [][Next]_vars

\* TotalSpec: every operation of the package, on two Set variables that start
\* as the zero value (nil), with every argument list of up to MaxKeys keys.
TotalRegs == {"a", "b"}

TotalNext ==
    \/ \E d \in TotalRegs, keys \in KeySeqs(kind) : DoNew(d, keys) /\ UNCHANGED hist
    \/ \E s \in TotalRegs, keys \in KeySeqs(kind) : DoInsert(s, keys) /\ UNCHANGED hist
    \/ \E s \in TotalRegs, keys \in KeySeqs(kind) : DoDelete(s, keys) /\ UNCHANGED hist
    \/ \E s \in TotalRegs, k \in Keys(kind) : DoHas(s, k) /\ UNCHANGED hist
    \/ \E s \in TotalRegs, keys \in KeySeqs(kind) : DoHasAll(s, keys) /\ UNCHANGED hist
    \/ \E s \in TotalRegs, keys \in KeySeqs(kind) : DoHasAny(s, keys) /\ UNCHANGED hist
    \/ \E s \in TotalRegs : DoLen(s) /\ UNCHANGED hist
    \/ \E s \in TotalRegs : DoList(s) /\ UNCHANGED hist
    \/ \E s, s2 \in TotalRegs : DoIsSuperset(s, s2) /\ UNCHANGED hist
    \/ \E s, s2 \in TotalRegs : DoEqual(s, s2) /\ UNCHANGED hist
    \/ \E d, s, s2 \in TotalRegs : DoUnion(d, s, s2) /\ UNCHANGED hist
    \/ \E d, s, s2 \in TotalRegs : DoIntersection(d, s, s2) /\ UNCHANGED hist
    \/ \E d, s, s2 \in TotalRegs : DoDifference(d, s, s2) /\ UNCHANGED hist

TotalSpec == Init /\ [][TotalNext]_vars

\* HistSpec: one Set variable under New, Insert and Delete, with the record of
\* what the latest call to mention each key did with it.
RECURSIVE Mention(_, _, _)
Mention(h, keys, what) ==
    IF keys = <<>> THEN h
    ELSE Mention([h EXCEPT ![Head(keys)] = what], Tail(keys), what)

HistNext ==
    \/ \E keys \in KeySeqs(kind) :
         DoNew("a", keys) /\ hist' = Mention([k \in Elem |-> "none"], keys, "add")
    \/ \E keys \in KeySeqs(kind) :
         DoInsert("a", keys) /\ hist' = Mention(hist, keys, "add")
    \/ \E keys \in KeySeqs(kind) :
         DoDelete("a", keys) /\ hist' = Mention(hist, keys, "del")
    \/ \E k \in Keys(kind) : DoHas("a", k) /\ UNCHANGED hist
    \/ DoLen("a") /\ UNCHANGED hist

HistSpec == Init /\ [][HistNext]_vars

\* ListSpec: one Set variable of each kind of key, listed after any inserts
\* and deletes.
ListInit ==
    /\ kind \in Kinds
    /\ ref = [r \in Regs |-> NilRef]
    /\ store = [a \in Addr |-> EmptyMap]
    /\ ret = Result("init", 0)
    /\ panicked = FALSE
    /\ hist = [k \in Elem |-> "none"]

ListNext ==
    \/ \E keys \in KeySeqs(kind) : DoNew("a", keys) /\ UNCHANGED hist
    \/ \E keys \in KeySeqs(kind) : DoInsert("a", keys) /\ UNCHANGED hist
    \/ \E keys \in KeySeqs(kind) : DoDelete("a", keys) /\ UNCHANGED hist
    \/ DoList("a") /\ UNCHANGED hist

ListSpec == ListInit /\ [][ListNext]_vars

\* ------------------------------------------------------------- claims
\* Membership as a plain set: the keys a lookup finds.
Members(s) == {k \in Keys(kind) : Has(s, k)}

Added == {x \in Elem : hist[x] = "add"}

C2_NeverFails == ~panicked

\* C2, amended: the only call that fails is an Insert of at least one key on a
\* nil receiver; every other call, on a nil or a non-nil receiver, with any
\* argument list, including a set passed to itself, returns normally.
C2_OnlyNilInsertFails ==
    [][panicked' =>
         \E s \in Regs, keys \in KeySeqs(kind) :
             /\ ref[s] = NilRef
             /\ keys # <<>>
             /\ DoInsert(s, keys)]_vars

C2_Witness ==
    /\ ~panicked
    /\ ret.op = "Insert" /\ ret.val > 0
    /\ \E r \in TotalRegs : ref[r] = NilRef
    /\ \E r \in TotalRegs : ref[r] # NilRef /\ SetLen(Val(r)) > 0

AlgebraOps == {"Union", "Intersection", "Difference"}

\* C4: Union, Intersection and Difference change no operand (nor any other
\* set), and the set they return shares storage with no other set; an Insert
\* or Delete changes only the sets that share storage with its receiver, so a
\* result and its operands never change one another.
C4_ResultIsIndependent ==
    [][/\ ret'.op \in AlgebraOps =>
            \E d \in Regs :
                /\ ref'[d] # NilRef
                /\ \A x \in Regs \ {d} :
                       ref'[x] # ref'[d] /\ ref'[x] = ref[x] /\ Val(x)' = Val(x)
       /\ ret'.op \in {"Insert", "Delete"} =>
            \E s \in Regs :
                \A x \in Regs :
                    ref'[x] = ref[x] /\ (ref[x] # ref[s] => Val(x)' = Val(x))]_vars

C4_Witness ==
    /\ ret.op = "Insert"
    /\ Members(Val("a")) # {} /\ Members(Val("b")) # {}
    /\ Members(Val("c")) # Members(Union(Val("a"), Val("b")))
    /\ Members(Union(Val("a"), Val("b"))) \subseteq Members(Val("c"))
    /\ ref["c"] \notin {ref["a"], ref["b"], NilRef}

C6_DifferencePlusIntersection ==
    ret.op \in {"Difference", "Intersection"} =>
        \A x, y \in Regs :
            SetLen(Difference(Val(x), Val(y))) + SetLen(Intersection(Val(y), Val(x)))
                = SetLen(Val(x))

C6_Witness ==
    /\ ret.op = "Intersection"
    /\ SetLen(Val("a")) < SetLen(Val("b"))
    /\ SetLen(Difference(Val("a"), Val("b"))) > 0
    /\ SetLen(Difference(Val("b"), Val("a"))) > 0
    /\ Val("c") = Intersection(Val("b"), Val("a"))

IsAscending(l) == \A i \in 1..(Len(l) - 1) : l[i] < l[i + 1]

Count(l, k) == Cardinality({i \in 1..Len(l) : l[i] = k})

\* C9 as stated: for a string or numeric key type, List() returns every member
\* once, in strictly ascending order.
C9_ListAscending ==
    (ret.op = "List" /\ HasLess(kind)) =>
        /\ Len(ret.val) = SetLen(Val("a"))
        /\ IsAscending(ret.val)

\* C9, amended: List() returns every entry of the set exactly once (its length
\* is Len()) and leaves the set as it was; for a string or numeric key type the
\* result is strictly ascending provided no key is a floating-point NaN.
C9_ListAscendingWithoutNaN ==
    /\ [](ret.op = "List" =>
            /\ Len(ret.val) = SetLen(Val("a"))
            /\ \A k \in Val("a").keys : Count(ret.val, k) = 1
            /\ Count(ret.val, NaN) = Val("a").nans
            /\ (HasLess(kind) /\ Val("a").nans = 0) => IsAscending(ret.val))
    /\ [][ret'.op = "List" => UNCHANGED <<ref, store>>]_vars

C9_Witness ==
    /\ ret.op = "List"
    /\ kind \in FloatKinds
    /\ Val("a").nans = 0
    /\ Len(ret.val) = MaxElem

====
